---- MODULE Spec2Model ----
(***************************************************************************)
(* Battery pack simulation: BatteryCell and BatteryPack of                 *)
(* "BMS simulation/bms_simulation.py".                                     *)
(*                                                                         *)
(* The program computes with Python floats.  The model computes with      *)
(* fixed-point integers:                                                   *)
(*   current          amperes                                              *)
(*   dt               seconds                                              *)
(*   capacity_ah      1/CapScale Ah                                        *)
(*   voltage_nominal  1/VoltScale V                                        *)
(*   soc              1/SocScale percent                                   *)
(*   soh              1/SohScale percent                                   *)
(*   temp             1/TempScale degree Celsius                           *)
(*   voltage          1/(VoltScale * 100*SocScale * 100*SohScale) V, so    *)
(*                    that voltage_nominal*(soc/100)*(soh/100) is exact    *)
(* A quotient that is not a whole number of units is rounded to the        *)
(* nearest unit (RoundDiv), as a float operation rounds to the nearest     *)
(* representable value.  The inputs are chosen so that the state-of-charge *)
(* and heat quotients are exact; the cooling quotient is rounded.          *)
(***************************************************************************)
EXTENDS Integers, Sequences, FiniteSets

VARIABLES
    cells,      \* BatteryPack.cells: sequence of cell records
    cycles,     \* BatteryPack.cycles
    raised,     \* exception raised by the most recent call, or "none"
    last        \* the most recent call and its arguments

vars == <<cells, cycles, raised, last>>

-----------------------------------------------------------------------------
(* Fixed-point resolutions *)

CapScale == 10
VoltScale == 10
SocScale == 9
SohScale == 100
TempScale == 2

(* Bounds of the model *)

MaxCells == 2
MaxCycles == 90            \* the 89th counted boundary reaches the soh floor
MaxCyclesUnchecked == 2
MaxCyclesMixed == 3
MaxCyclesQueries == 4
MaxCyclesLive == 12
MaxSocExcursion == 60      \* percent outside 0..100, unchecked arguments only
MaxTempExcursion == 2      \* degrees below ambient, unchecked arguments only

(* Arguments of the constructor and of simulate_step *)

cell_capacity == 25             \* 2.5 Ah
cell_voltage == 37              \* 3.7 V
Currents == {-1, 0, 1}
Dts == {5000}
UncheckedDts == {-5000, 0} \cup Dts
UncheckedCapacities == {0, cell_capacity}
MixedSocs == {0, 400, 100 * SocScale - 1, 100 * SocScale}

(* Literals of the program *)

initial_soc == 100
initial_soh == 100
initial_temp == 25
thermal_capacity == 500
ambient_temp == 25
SecondsPerHour == 3600
resistance_hundredths == 5      \* resistance = 0.05
cooling_hundredths == 1         \* (temp - ambient_temp) * 0.01
degrade_hundredths == 1         \* 0.01 * cycles
min_soh == 60
full_soc == 100
empty_soc == 0

-----------------------------------------------------------------------------
(* Arithmetic *)

Max(a, b) == IF a >= b THEN a ELSE b

Min(a, b) == IF a <= b THEN a ELSE b

\* a / b for b > 0, rounded to the nearest integer (ties away from zero)
RoundDiv(a, b) ==
    IF a >= 0 THEN (2 * a + b) \div (2 * b)
              ELSE -((2 * (-a) + b) \div (2 * b))

-----------------------------------------------------------------------------
(* BatteryCell *)

\* initial_soc, initial_soh, initial_temp are given in model units
BatteryCell(capacity_ah, voltage_nominal, soc0, soh0, temp0) ==
    [ capacity_ah     |-> capacity_ah,
      voltage_nominal |-> voltage_nominal,
      soc             |-> soc0,
      soh             |-> soh0,
      temp            |-> temp0,
      voltage         |-> voltage_nominal * (100 * SocScale) * (100 * SohScale) ]

update_voltage(cell) ==
    [cell EXCEPT !.voltage = cell.voltage_nominal * cell.soc * cell.soh]

\* cool_down with ambient_temp left out: cooling_rate = temp * 0.01
cool_down_toward_zero(cell) ==
    LET cooling_rate == RoundDiv(cell.temp * cooling_hundredths, 100)
    IN  [cell EXCEPT !.temp = cell.temp - cooling_rate]

cool_down(cell) ==
    LET cooling_rate ==
            RoundDiv((cell.temp - ambient_temp * TempScale) * cooling_hundredths, 100)
    IN  [cell EXCEPT !.temp = cell.temp - cooling_rate]

generate_heat(cell, current, dt) ==
    LET heat_generated == (current * current) * resistance_hundredths * dt
        delta_temp == RoundDiv(heat_generated * TempScale, 100 * thermal_capacity)
    IN  cool_down([cell EXCEPT !.temp = cell.temp + delta_temp])

\* the soc change with dt taken as minutes: current * dt / 60
soc_delta_per_minute(cell, current, dt) ==
    RoundDiv(current * dt * CapScale * 100 * SocScale, 60 * cell.capacity_ah)

\* (current * dt / 3600) / capacity_ah * 100, in soc units
soc_delta(cell, current, dt) ==
    RoundDiv(current * dt * CapScale * 100 * SocScale,
             SecondsPerHour * cell.capacity_ah)

\* discharge that stops at a reserve of 1 percent instead of 0
discharge_keeps_reserve(cell, current, dt) ==
    LET soc_drop == soc_delta(cell, current, dt)
        drained == [cell EXCEPT !.soc = Max(cell.soc - soc_drop, 1 * SocScale)]
    IN  update_voltage(generate_heat(drained, current, dt))

\* discharge with the clamp at 0 left out
discharge_unclamped(cell, current, dt) ==
    LET soc_drop == soc_delta(cell, current, dt)
        drained == [cell EXCEPT !.soc = cell.soc - soc_drop]
    IN  update_voltage(generate_heat(drained, current, dt))

discharge(cell, current, dt) ==
    LET soc_drop == soc_delta(cell, current, dt)
        drained == [cell EXCEPT !.soc = Max(cell.soc - soc_drop, empty_soc * SocScale)]
    IN  update_voltage(generate_heat(drained, current, dt))

\* charge with soc_gain = delta_ah * 100, the division by capacity_ah left out
charge_gain_ignores_capacity(cell, current, dt) ==
    LET soc_gain == RoundDiv(current * dt * 100 * SocScale, SecondsPerHour)
        filled == [cell EXCEPT !.soc = Min(cell.soc + soc_gain, full_soc * SocScale)]
    IN  update_voltage(generate_heat(filled, current, dt))

charge(cell, current, dt) ==
    LET soc_gain == soc_delta(cell, current, dt)
        filled == [cell EXCEPT !.soc = Min(cell.soc + soc_gain, full_soc * SocScale)]
    IN  update_voltage(generate_heat(filled, current, dt))

\* degrade_health with the floor of 60 left out
degrade_health_no_floor(cell, cyc) ==
    [cell EXCEPT !.soh = cell.soh - RoundDiv(degrade_hundredths * cyc * SohScale, 100)]

\* degrade_health with += in place of -=
degrade_health_adds(cell, cyc) ==
    LET soh == cell.soh + RoundDiv(degrade_hundredths * cyc * SohScale, 100)
    IN  [cell EXCEPT !.soh = IF soh < min_soh * SohScale THEN min_soh * SohScale ELSE soh]

degrade_health(cell, cyc) ==
    LET soh == cell.soh - RoundDiv(degrade_hundredths * cyc * SohScale, 100)
    IN  [cell EXCEPT !.soh = IF soh < min_soh * SohScale THEN min_soh * SohScale ELSE soh]

-----------------------------------------------------------------------------
(* BatteryPack *)

BatteryPack(num_cells, capacity, voltage) ==
    [ cells  |-> [i \in 1..num_cells |->
                    BatteryCell(capacity, voltage, initial_soc * SocScale,
                                initial_soh * SohScale, initial_temp * TempScale)],
      cycles |-> 0 ]

\* the per-cell pass with else in place of elif current < 0
step_cell_else_charge(cell, current, dt) ==
    IF current > 0 THEN discharge(cell, current, dt)
    ELSE charge(cell, -current, dt)

\* the per-cell pass of simulate_step
step_cell(cell, current, dt) ==
    IF current > 0 THEN discharge(cell, current, dt)
    ELSE IF current < 0 THEN charge(cell, -current, dt)
    ELSE cell

\* the cycle test with any() in place of all()
cycle_boundary_any(cs) ==
    \/ \E i \in 1..Len(cs) : cs[i].soc = full_soc * SocScale
    \/ \E i \in 1..Len(cs) : cs[i].soc = empty_soc * SocScale

\* all(cell.soc == 100 ...) or all(cell.soc == 0 ...)
cycle_boundary(cs) ==
    \/ \A i \in 1..Len(cs) : cs[i].soc = full_soc * SocScale
    \/ \A i \in 1..Len(cs) : cs[i].soc = empty_soc * SocScale

\* the cycle tracking with cycles += 1 inside the loop over the cells
track_cycles_counts_per_cell(cs, cyc) ==
    IF cycle_boundary(cs)
    THEN [ cells  |-> [i \in 1..Len(cs) |-> degrade_health(cs[i], cyc + i)],
           cycles |-> cyc + Len(cs) ]
    ELSE [ cells |-> cs, cycles |-> cyc ]

\* the cycle tracking with degrade_health called before cycles += 1
track_cycles_degrades_first(cs, cyc) ==
    IF cycle_boundary(cs)
    THEN [ cells  |-> [i \in 1..Len(cs) |-> degrade_health(cs[i], cyc)],
           cycles |-> cyc + 1 ]
    ELSE [ cells |-> cs, cycles |-> cyc ]

\* the cycle tracking of simulate_step
track_cycles(cs, cyc) ==
    IF cycle_boundary(cs)
    THEN [ cells  |-> [i \in 1..Len(cs) |-> degrade_health(cs[i], cyc + 1)],
           cycles |-> cyc + 1 ]
    ELSE [ cells |-> cs, cycles |-> cyc ]

\* the division by capacity_ah of the first cell raises ZeroDivisionError
\* before any attribute is assigned
divides_by_zero(cs, current) ==
    current # 0 /\ Len(cs) > 0 /\ cs[1].capacity_ah = 0

\* simulate_step raising an error when asked to discharge a depleted cell
simulate_step_raises_on_depletion(cs, cyc, current, dt) ==
    IF divides_by_zero(cs, current)
       \/ (current > 0 /\ \E i \in 1..Len(cs) : cs[i].soc = empty_soc * SocScale)
    THEN [ cells |-> cs, cycles |-> cyc, raised |-> "ValueError" ]
    ELSE LET stepped == [i \in 1..Len(cs) |-> step_cell(cs[i], current, dt)]
             tracked == track_cycles(stepped, cyc)
         IN  [ cells |-> tracked.cells, cycles |-> tracked.cycles, raised |-> "none" ]

\* simulate_step whose loop over the cells stops before the last cell
simulate_step_skips_last(cs, cyc, current, dt) ==
    IF divides_by_zero(cs, current)
    THEN [ cells |-> cs, cycles |-> cyc, raised |-> "ZeroDivisionError" ]
    ELSE LET stepped == [i \in 1..Len(cs) |->
                            IF i < Len(cs) THEN step_cell(cs[i], current, dt) ELSE cs[i]]
             tracked == track_cycles(stepped, cyc)
         IN  [ cells |-> tracked.cells, cycles |-> tracked.cycles, raised |-> "none" ]

\* BatteryPack.simulate_step as a function of the pack state
simulate_step(cs, cyc, current, dt) ==
    IF divides_by_zero(cs, current)
    THEN [ cells |-> cs, cycles |-> cyc, raised |-> "ZeroDivisionError" ]
    ELSE LET stepped == [i \in 1..Len(cs) |-> step_cell(cs[i], current, dt)]
             tracked == track_cycles(stepped, cyc)
         IN  [ cells |-> tracked.cells, cycles |-> tracked.cycles, raised |-> "none" ]

RECURSIVE sum_of(_, _)
\* sum(cell.<field> for cell in self.cells)
sum_of(cs, field) ==
    IF Len(cs) = 0 THEN 0 ELSE cs[1][field] + sum_of(Tail(cs), field)

\* get_pack_voltage with the last cell left out of the sum
get_pack_voltage_skips_last(cs) ==
    [ returned |-> sum_of(SubSeq(cs, 1, Len(cs) - 1), "voltage"), raised |-> "none" ]

get_pack_voltage(cs) ==
    [ returned |-> sum_of(cs, "voltage"), raised |-> "none" ]

\* get_average_soc, get_average_temp, get_average_soh: sum(...) / len(self.cells)
get_average(cs, field) ==
    IF Len(cs) = 0
    THEN [ returned |-> 0, raised |-> "ZeroDivisionError" ]
    ELSE [ returned |-> RoundDiv(sum_of(cs, field), Len(cs)), raised |-> "none" ]

-----------------------------------------------------------------------------
(* The state machine *)

Constructed(pack) ==
    /\ cells = pack.cells
    /\ cycles = pack.cycles
    /\ raised = "none"
    /\ last = [op |-> "__init__", current |-> 0, dt |-> 0]

SimulateStep(current, dt) ==
    LET r == simulate_step(cells, cycles, current, dt)
    IN  /\ cells' = r.cells
        /\ cycles' = r.cycles
        /\ raised' = r.raised
        /\ last' = [op |-> "simulate_step", current |-> current, dt |-> dt]

\* Spec: a pack built by BatteryPack with valid arguments, stepped with dt > 0.
Init == Constructed(BatteryPack(MaxCells, cell_capacity, cell_voltage))

Next ==
    /\ cycles < MaxCycles
    /\ \E current \in Currents, dt \in Dts : SimulateStep(current, dt)

Spec == Init /\ [][Next]_vars

\* SpecUnchecked: every argument the code accepts, also an empty pack, a zero
\* capacity and dt <= 0.
InitUnchecked ==
    \E n \in 0..MaxCells, capacity \in UncheckedCapacities :
        Constructed(BatteryPack(n, capacity, cell_voltage))

InEnvelope(cs) ==
    \A i \in 1..Len(cs) :
        /\ cs[i].soc >= (empty_soc - MaxSocExcursion) * SocScale
        /\ cs[i].soc <= (full_soc + MaxSocExcursion) * SocScale
        /\ cs[i].temp >= (ambient_temp - MaxTempExcursion) * TempScale

NextUnchecked ==
    /\ cycles < MaxCyclesUnchecked
    /\ \E current \in Currents, dt \in UncheckedDts : SimulateStep(current, dt)
    /\ InEnvelope(cells')

SpecUnchecked == InitUnchecked /\ [][NextUnchecked]_vars

\* SpecMixed: a pack whose cells were built by BatteryCell with different
\* initial_soc, stepped with dt > 0.
InitMixed ==
    \E n \in 1..MaxCells : \E socs \in [1..n -> MixedSocs] :
        Constructed([ cells  |-> [i \in 1..n |->
                                   BatteryCell(cell_capacity, cell_voltage, socs[i],
                                               initial_soh * SohScale,
                                               initial_temp * TempScale)],
                      cycles |-> 0 ])

NextMixed ==
    /\ cycles < MaxCyclesMixed
    /\ \E current \in Currents, dt \in Dts : SimulateStep(current, dt)

SpecMixed == InitMixed /\ [][NextMixed]_vars

\* SpecQueries: a pack built by BatteryPack with valid arguments, stepped with
\* dt > 0 and read through the getters.
GetPackVoltage ==
    LET r == get_pack_voltage(cells)
    IN  /\ raised' = r.raised
        /\ last' = [op |-> "get_pack_voltage", current |-> 0, dt |-> 0,
                    returned |-> r.returned]
        /\ UNCHANGED <<cells, cycles>>

GetAverage(op, field) ==
    LET r == get_average(cells, field)
    IN  /\ raised' = r.raised
        /\ last' = [op |-> op, current |-> 0, dt |-> 0, returned |-> r.returned]
        /\ UNCHANGED <<cells, cycles>>

InitQueries ==
    \E n \in 1..MaxCells : Constructed(BatteryPack(n, cell_capacity, cell_voltage))

NextQueries ==
    \/ /\ cycles < MaxCyclesQueries
       /\ \E current \in Currents, dt \in Dts : SimulateStep(current, dt)
    \/ GetPackVoltage
    \/ GetAverage("get_average_soc", "soc")
    \/ GetAverage("get_average_temp", "temp")
    \/ GetAverage("get_average_soh", "soh")

SpecQueries == InitQueries /\ [][NextQueries]_vars

\* SpecLive: the driver keeps calling simulate_step; once it repeats the call
\* it made last, it goes on making calls.
RepeatStep ==
    /\ cycles < MaxCyclesLive
    /\ last.op = "simulate_step"
    /\ SimulateStep(last.current, last.dt)

NextLive ==
    \/ /\ cycles < MaxCyclesLive
       /\ \E current \in Currents, dt \in Dts : SimulateStep(current, dt)
    \/ RepeatStep

SpecLive == Init /\ [][NextLive]_vars /\ WF_vars(RepeatStep)

-----------------------------------------------------------------------------
(* Properties *)

Stepped == last.op = "simulate_step"

Cells == 1..Len(cells)

FullSoc == 100 * SocScale

AllSocAt(cs, v) == \A i \in 1..Len(cs) : cs[i].soc = v

\* C1: after any sequence of simulate_step calls with dt > 0 on a constructed
\* pack, every cell has 0 <= soc <= 100.
C1_SocInRange == \A i \in Cells : cells[i].soc >= 0 /\ cells[i].soc <= FullSoc

\* a discharge step that would have taken soc below 0 has left it at 0
C1_Witness == Stepped /\ last.current > 0 /\ \E i \in Cells : cells[i].soc = 0

\* C2: after any sequence of simulate_step calls every cell has
\* 60 <= soh <= 100, however many cycle boundaries have been counted.
C2_SohInRange ==
    \A i \in Cells : cells[i].soh >= 60 * SohScale /\ cells[i].soh <= 100 * SohScale

\* the 89th counted boundary would take soh to 59.95: it is held at 60
C2_Witness == cycles >= 89 /\ \E i \in Cells : cells[i].soh = 60 * SohScale

\* C3: after every simulate_step call every cell's voltage equals
\* voltage_nominal * (soc/100) * (soh/100) of its current soc and soh.
C3_VoltageConsistent ==
    Stepped =>
        \A i \in Cells :
            cells[i].voltage = cells[i].voltage_nominal * cells[i].soc * cells[i].soh

\* C4: a step on which all cells were at the same soc extreme before the step
\* and still are after it does not increment cycles.
C4_OncePerCrossing ==
    [][ ( \/ AllSocAt(cells, FullSoc) /\ AllSocAt(cells', FullSoc)
          \/ AllSocAt(cells, 0) /\ AllSocAt(cells', 0) )
        => cycles' = cycles ]_vars

\* C5: a step increases cycles by exactly 1 when after it all cells have soc
\* exactly 100 or all have soc exactly 0, and otherwise leaves cycles and every
\* soh unchanged.
C5_CycleOnlyWhenAllSaturated ==
    [][ last'.op = "simulate_step" =>
          IF AllSocAt(cells', FullSoc) \/ AllSocAt(cells', 0)
          THEN cycles' = cycles + 1
          ELSE /\ cycles' = cycles
               /\ \A i \in Cells : cells'[i].soh = cells[i].soh ]_vars

\* a step has run on a pack with one cell just below 100 and another at 100,
\* and no cycle has been counted
C5_Witness ==
    /\ Stepped
    /\ cycles = 0
    /\ \E i, j \in Cells : cells[i].soc = FullSoc - 1 /\ cells[j].soc = FullSoc

\* C6: simulate_step with dt <= 0 raises an error and leaves every cell and
\* cycles unchanged.
C6_NonPositiveDtRejected ==
    [][ last'.op = "simulate_step" /\ last'.dt <= 0 =>
          raised' # "none" /\ cells' = cells /\ cycles' = cycles ]_vars

\* C7: no pack exists with an empty cell list or with a cell of non-positive
\* capacity.
C7_ConstructionRejectsBadArguments ==
    Len(cells) > 0 /\ \A i \in Cells : cells[i].capacity_ah > 0

\* C8: over every step, every cell's soh after the step is <= its soh before.
C8_SohNonIncreasing ==
    [][ \A i \in Cells : cells'[i].soh <= cells[i].soh ]_vars

\* a counted boundary has lowered soh
C8_Witness == Stepped /\ cycles >= 2 /\ \E i \in Cells : cells[i].soh < 100 * SohScale

RoundTripCurrents == {1, 2}

RoundTripDts == {1000, 5000}

AfterCharge(c, t) == simulate_step(cells, cycles, -c, t)

AfterRoundTrip(c, t) ==
    LET a == AfterCharge(c, t) IN simulate_step(a.cells, a.cycles, c, t)

\* C9: from any reachable state, simulate_step(-c, t) followed by
\* simulate_step(c, t) returns every cell's soc to its value before the two
\* steps whenever neither step counts a cycle boundary.
C9_RoundTrip ==
    \A c \in RoundTripCurrents, t \in RoundTripDts :
        LET back == AfterRoundTrip(c, t)
        IN  back.cycles = cycles =>
                \A i \in Cells : back.cells[i].soc = cells[i].soc

\* a reachable state from which a round trip counts no boundary and the charge
\* step raises soc
C9_Witness ==
    /\ Stepped
    /\ \E c \in RoundTripCurrents, t \in RoundTripDts :
          /\ AfterRoundTrip(c, t).cycles = cycles
          /\ \A i \in Cells : AfterCharge(c, t).cells[i].soc > cells[i].soc

\* C10: a step with current = 0 leaves every cell's soc, temp and voltage as
\* they were.
C10_ZeroCurrentFrame ==
    [][ last'.op = "simulate_step" /\ last'.current = 0 =>
          \A i \in Cells :
              /\ cells'[i].soc = cells[i].soc
              /\ cells'[i].temp = cells[i].temp
              /\ cells'[i].voltage = cells[i].voltage ]_vars

\* a zero-current step has run on a warm pack whose voltage a counted boundary
\* had left behind its soh
C10_Witness ==
    /\ Stepped
    /\ last.current = 0
    /\ \E i \in Cells :
          /\ cells[i].temp > ambient_temp * TempScale
          /\ cells[i].voltage # cells[i].voltage_nominal * cells[i].soc * cells[i].soh

Getters == {"get_pack_voltage", "get_average_soc", "get_average_temp", "get_average_soh"}

FullVoltage(n) == n * cell_voltage * (100 * SocScale) * (100 * SohScale)

RECURSIVE VoltageUpTo(_, _)
VoltageUpTo(cs, n) == IF n = 0 THEN 0 ELSE VoltageUpTo(cs, n - 1) + cs[n].voltage

VoltageTotal(cs) == VoltageUpTo(cs, Len(cs))

\* C11: get_pack_voltage returns the sum of the cells' current voltages and
\* changes neither the cells nor cycles; on a freshly constructed pack of n
\* cells it returns n * voltage_nominal.
C11_PackVoltage ==
    [][ /\ last'.op = "get_pack_voltage" =>
             /\ last'.returned = VoltageTotal(cells)
             /\ (last.op = "__init__" => last'.returned = FullVoltage(Len(cells)))
        /\ last'.op \in Getters => cells' = cells /\ cycles' = cycles ]_vars

\* get_pack_voltage has read a pack of two cells that has left full charge
C11_Witness ==
    /\ last.op = "get_pack_voltage"
    /\ Len(cells) = 2
    /\ cells[1].soc < FullSoc
    /\ last.returned = cells[1].voltage + cells[2].voltage
    /\ last.returned > 0

\* C12: in every reachable state, also with soc at 0 or 100 and soh at its
\* floor of 60, simulate_step with any current and dt > 0 can be called (it
\* has no precondition: it yields a next pack state) and completes without
\* raising an error.
C12_NoTerminalState ==
    /\ raised = "none"
    /\ \A current \in Currents, dt \in Dts :
          LET r == simulate_step(cells, cycles, current, dt)
          IN  r.raised = "none" /\ Len(r.cells) = Len(cells) /\ r.cycles >= cycles

\* a discharge step has run on a depleted pack whose soh is at the floor
C12_Witness ==
    /\ Stepped
    /\ last.current > 0
    /\ raised = "none"
    /\ cycles >= 90
    /\ \A i \in Cells : cells[i].soc = 0 /\ cells[i].soh = 60 * SohScale

\* C13: cycles is an integer that starts at 0 and never decreases; each step
\* changes it by 0 or by +1.
C13_CyclesMonotone ==
    /\ cycles = 0
    /\ [][ cycles' \in Nat /\ (cycles' = cycles \/ cycles' = cycles + 1) ]_vars

\* a step has counted a boundary and a later step has counted none
C13_Witness ==
    /\ Stepped
    /\ cycles >= 1
    /\ \E i \in Cells : cells[i].soc > 0 /\ cells[i].soc < FullSoc

\* (current * dt / 3600) / capacity_ah * 100 percent, in units of 1/9 percent,
\* for the capacity of 2.5 Ah: current * dt / 90 percent = current * dt / 10 units
ExpectedSocChange(current, dt) == (current * dt) \div 10

ExampleCell == BatteryCell(25, 37, 900, 10000, 50)

\* C14: a step with current > 0 sets every soc to
\* max(soc - (current*dt/3600)/capacity_ah*100, 0), one with current < 0 to
\* min(soc + (-current*dt/3600)/capacity_ah*100, 100); capacity 2.5 Ah, 1.0 A and
\* 10 s take soc from 100 to 99.8889 (899 units of 1/9 percent).
C14_SocUpdate ==
    /\ simulate_step(<<ExampleCell>>, 0, 1, 10).cells[1].soc = 899
    /\ [][ last'.op = "simulate_step" =>
            \A i \in Cells :
               /\ last'.current > 0 =>
                     LET lowered == cells[i].soc - ExpectedSocChange(last'.current, last'.dt)
                     IN  cells'[i].soc = IF lowered > 0 THEN lowered ELSE 0
               /\ last'.current < 0 =>
                     LET raisedTo == cells[i].soc + ExpectedSocChange(-last'.current, last'.dt)
                     IN  cells'[i].soc = IF raisedTo < 900 THEN raisedTo ELSE 900 ]_vars

\* a discharge step has lowered soc from 100 to a value above 0
C14_Witness ==
    /\ Stepped
    /\ last.current > 0
    /\ cycles = 0
    /\ \A i \in Cells : cells[i].soc = 900 - ExpectedSocChange(last.current, last.dt)
    /\ \A i \in Cells : cells[i].soc > 0

\* soh in units of 0.01 percent after k counted boundaries on a fresh pack:
\* max(100 - 0.01 * k*(k+1)/2, 60)
SohAfter(k) ==
    LET worn == 10000 - (k * (k + 1)) \div 2
    IN  IF worn > 6000 THEN worn ELSE 6000

C16_CellsEqual ==
    \A i, j \in Cells :
        /\ cells[i].soc = cells[j].soc
        /\ cells[i].soh = cells[j].soh
        /\ cells[i].temp = cells[j].temp
        /\ cells[i].voltage = cells[j].voltage
        /\ \A v \in {0, FullSoc} : AllSocAt(cells, v) <=> cells[i].soc = v

\* a pack of at least two cells has been discharged, warmed and degraded
C16_Witness ==
    /\ Stepped
    /\ Len(cells) >= 2
    /\ cycles >= 1
    /\ \A i \in Cells :
          /\ cells[i].soc > 0 /\ cells[i].soc < FullSoc
          /\ cells[i].temp > ambient_temp * TempScale
          /\ cells[i].soh < 100 * SohScale

\* ambient_temp in units of 0.5 degree
Ambient == ambient_temp * TempScale

\* temp + current^2 * 0.05 * dt / thermal_capacity, in units of 0.5 degree
Heated(temp, current, dt) == temp + (current * current * dt) \div 5000

\* T - 0.01 * (T - ambient_temp) for T >= ambient_temp, the hundredth rounded to
\* the nearest unit
Cooled(T) == T - (2 * (T - Ambient) + 100) \div 200

\* C17: from the default initial temperature, after any sequence of
\* simulate_step calls with dt > 0 every temp is >= ambient_temp; a step with
\* current # 0 sets temp to T - 0.01*(T - ambient_temp) where
\* T = temp + current^2 * 0.05 * dt / thermal_capacity.
C17_TempAtLeastAmbient ==
    /\ [](\A i \in Cells : cells[i].temp >= Ambient)
    /\ [][ last'.op = "simulate_step" /\ last'.current # 0 =>
            \A i \in Cells :
               cells'[i].temp = Cooled(Heated(cells[i].temp, last'.current, last'.dt)) ]_vars

\* steps with current # 0 have warmed the pack to the temperature at which the
\* cooling term offsets the heat of a step
C17_Witness ==
    /\ Stepped
    /\ last.current # 0
    /\ \A i \in Cells :
          /\ cells[i].temp > Ambient
          /\ Cooled(Heated(cells[i].temp, last.current, last.dt)) = cells[i].temp

SocLimit(current) == IF current > 0 THEN 0 ELSE FullSoc

====
